---- MODULE Spec2Model ----
(***************************************************************************)
(* Model of the local-memory engine: the vector codec, the similarity      *)
(* kernels, the key-value store (storage/db.rs), the three-stage search    *)
(* funnel (engine/funnel.rs), the SQLite store with its ingestion          *)
(* pipeline (storage/sqlite.rs, engine/ingestion.rs), the MCP server loop  *)
(* (main.rs) and the locks of the model provider (model/candle.rs).        *)
(*                                                                         *)
(* Float vectors are kept sparse: a vector is [len, nz, div2] where nz     *)
(* maps the indices of the non-zero components to integers and the value   *)
(* of component i is nz[i] / sqrt(div2).  Arithmetic is exact; f32         *)
(* rounding, NaN and infinities are outside the value domain.              *)
(***************************************************************************)
EXTENDS Integers, Sequences, FiniteSets, TLC

\* ------------------------------------------------------------------ bounds
NumIds == 2
MaxClock == 2
MaxK == 2
MaxTopK == 2

\* ------------------------------------------------------------- Option<T>
None == <<>>
Some(x) == <<x>>
IsSome(o) == o # <<>>
Unwrap(o) == o[1]

\* --------------------------------------------------------------- vectors
\* a vector is [len, nz, div2]: component i is nz[i] / sqrt(div2), or 0
\* where nz has no entry
SumSet(f, S) ==
  LET RECURSIVE Go(_)
      Go(T) == IF T = {} THEN 0
               ELSE LET x == CHOOSE y \in T : TRUE IN f[x] + Go(T \ {x})
  IN Go(S)

\* sum of squares of the components (the squared L2 norm times div2)
SumSquares(v) == SumSet([i \in DOMAIN v.nz |-> v.nz[i] * v.nz[i]], DOMAIN v.nz)

Dot(a, b) ==
  LET S == DOMAIN a.nz \cap DOMAIN b.nz
  IN SumSet([i \in S |-> a.nz[i] * b.nz[i]], S)

Pow2(n) == IF n = 0 THEN 1 ELSE IF n = 1 THEN 2 ELSE IF n = 2 THEN 4
           ELSE IF n = 3 THEN 8 ELSE IF n = 4 THEN 16 ELSE IF n = 5 THEN 32
           ELSE IF n = 6 THEN 64 ELSE 128

CeilDiv8(n) == (n + 7) \div 8

\* bq::encode_bq with the bits of a byte filled from the least significant
\* end (Lsb0)
encode_bq_lsb0(vector) ==
  LET ones == {i \in DOMAIN vector.nz : i < vector.len /\ vector.nz[i] > 0}
      InByte(k) == {i \in ones : i \div 8 = k - 1}
  IN [k \in 1..CeilDiv8(vector.len) |->
        SumSet([i \in InByte(k) |-> Pow2(i % 8)], InByte(k))]

\* engine/bq.rs encode_bq: one bit per component, pushed into a
\* BitVec<u8, Msb0>; into_vec pads the last byte with zero bits.
encode_bq(vector) ==
  LET ones == {i \in DOMAIN vector.nz : i < vector.len /\ vector.nz[i] > 0}
      InByte(k) == {i \in ones : i \div 8 = k - 1}
  IN [k \in 1..CeilDiv8(vector.len) |->
        SumSet([i \in InByte(k) |-> Pow2(7 - (i % 8))], InByte(k))]

\* engine/matryoshka.rs slice_vector: Err on m = 0 and m > |v|, else the
\* first m components divided by their L2 norm (unchanged when it is 0).
slice_vector(vec, target_dim) ==
  IF target_dim = 0 THEN None
  ELSE IF target_dim > vec.len THEN None
  ELSE LET keep == {i \in DOMAIN vec.nz : i < target_dim}
           sliced == [len |-> target_dim, nz |-> [i \in keep |-> vec.nz[i]],
                      div2 |-> vec.div2]
           sum_squares == SumSquares(sliced)
       IN IF sum_squares = 0 THEN Some(sliced)
          ELSE Some([sliced EXCEPT !.div2 = sum_squares])

\* component i of a vector
Component(v, i) == IF i \in DOMAIN v.nz THEN v.nz[i] ELSE 0

\* engine/vectors.rs encode_bq: the same loop, here bit by bit: push
\* val > 0.0 for every component, into_vec pads to whole bytes with zeros
vectors_encode_bq(vector) ==
  LET nbytes == CeilDiv8(vector.len)
      bits == [i \in 0..(8 * nbytes - 1) |->
                 IF i < vector.len /\ Component(vector, i) > 0 THEN 1 ELSE 0]
  IN [k \in 1..nbytes |->
        SumSet([j \in 0..7 |-> bits[8 * (k - 1) + j] * Pow2(7 - j)], 0..7)]

\* engine/vectors.rs slice_vector: the whole vector when it is not longer
\* than target_dim, else the prefix, divided by its norm when that is > 0;
\* it has no error result
vectors_slice_vector(vector, target_dim) ==
  IF vector.len <= target_dim THEN vector
  ELSE LET keep == {i \in DOMAIN vector.nz : i < target_dim}
           sliced == [len |-> target_dim, nz |-> [i \in keep |-> vector.nz[i]],
                      div2 |-> vector.div2]
           norm2 == SumSquares(sliced)
       IN IF norm2 > 0 THEN [sliced EXCEPT !.div2 = norm2] ELSE sliced

\* ------------------------------------------------------ similarity kernels
BitAt(x, j) == (x \div Pow2(j)) % 2
PopXor(x, y) ==
  IF x = y THEN 0 ELSE Cardinality({j \in 0..7 : BitAt(x, j) # BitAt(y, j)})

\* simsimd u8::hamming as called in hamming_scan: None on a length
\* mismatch, else the population count of the XOR.
hamming(a, b) ==
  LET RECURSIVE Pop(_)
      Pop(i) == IF i > Len(a) THEN 0 ELSE PopXor(a[i], b[i]) + Pop(i + 1)
  IN IF Len(a) # Len(b) THEN None ELSE Some(Pop(1))

\* A similarity score n / sqrt(d2), d2 > 0.
Sq(n) == IF n >= 0 THEN n * n ELSE 0 - (n * n)
ScoreLeq(x, y) == Sq(x.n) * y.d2 <= Sq(y.n) * x.d2
ScoreLt(x, y) == Sq(x.n) * y.d2 < Sq(y.n) * x.d2

\* simsimd SpatialSimilarity::cos followed by `1.0 - distance`: None on a
\* length mismatch; distance 0 for two zero vectors, 1 for a zero dot
\* product, else 1 - ab / sqrt(a2 * b2) (the scale div2 cancels).
cos_similarity(a, b) ==
  IF a.len # b.len THEN None
  ELSE LET ab == Dot(a, b)
           a2 == SumSquares(a)
           b2 == SumSquares(b)
       IN IF a2 = 0 /\ b2 = 0 THEN Some([n |-> 1, d2 |-> 1])
          ELSE IF ab = 0 THEN Some([n |-> 0, d2 |-> 1])
          ELSE Some([n |-> ab, d2 |-> a2 * b2])


\* ---------------------------------------------------------- list helpers
Min(a, b) == IF a <= b THEN a ELSE b

\* no truncation
truncate_nothing(s, k) == s

\* Vec::truncate
truncate(s, k) == SubSeq(s, 1, Min(k, Len(s)))

\* slice::sort_by is stable: an element goes after every element that does
\* not compare greater than it.
StableSort(s, less) ==
  LET Ins(t, x) ==
        LET k == Cardinality({i \in 1..Len(t) : ~less[x, t[i]]})
        IN SubSeq(t, 1, k) \o <<x>> \o SubSeq(t, k + 1, Len(t))
      RECURSIVE Go(_, _)
      Go(acc, i) == IF i > Len(s) THEN acc ELSE Go(Ins(acc, i), i + 1)
      order == Go(<<>>, 1)
  IN [i \in 1..Len(s) |-> s[order[i]]]

\* the increasing enumeration of a finite set of integers (key order)
RECURSIVE SetToSeq(_)
SetToSeq(S) ==
  IF S = {} THEN <<>>
  ELSE LET x == CHOOSE y \in S : \A z \in S : y <= z
       IN <<x>> \o SetToSeq(S \ {x})

Ids(s) == [i \in 1..Len(s) |-> s[i].id]

\* ------------------------------------------------------------ input sets
IdSet == 1..NumIds

vA == [len |-> 264, nz |-> (0 :> 3 @@ 1 :> 4), div2 |-> 1]
vB == [len |-> 264, nz |-> (0 :> 4 @@ 1 :> 3 @@ 260 :> (0 - 1)), div2 |-> 1]
vC == [len |-> 3, nz |-> (0 :> 1), div2 |-> 1]

\* the Memory values callers insert (the id is chosen separately)
Payloads ==
  { [metadata |-> "a", vector |-> vA, bit_vector |-> encode_bq(vA),
     tier |-> "Semantic", expires_at |-> None],
    [metadata |-> "b", vector |-> vB, bit_vector |-> encode_bq(vB),
     tier |-> "Episodic", expires_at |-> Some(1)],
    [metadata |-> "c", vector |-> vC, bit_vector |-> encode_bq(vC),
     tier |-> "Semantic", expires_at |-> None] }

Queries == {vA, vB, vC}

\* ----------------------------------------------------------------- state
VARIABLES
  metadata,      \* Database.metadata keyspace: id -> MemoryEntry
  vectors,       \* Database.vectors keyspace: id -> Vec<f32>
  bit_index,     \* Database.bit_index keyspace: id -> Vec<u8>
  now,           \* the system clock, in seconds
  config,        \* Config.search_stages: stage1_k, stage2_k
  gm,            \* a get_memory call in progress
  srch,          \* a SearchFunnel::search call, in progress or just returned;
                 \* srch.earlier is history: the first search that returned
                 \* since the last write or clock tick
  inserted,      \* history: ids whose last completed write is an insert
  documents,     \* SqliteDatabase table documents
  vec_documents, \* SqliteDatabase table vec_documents
  vec_bit_documents, \* SqliteDatabase table vec_bit_documents
  entities,      \* SqliteDatabase table entities
  vec_entities,  \* SqliteDatabase table vec_entities
  relationships, \* SqliteDatabase table relationships
  uuid,          \* ids Uuid::new_v4 has produced: for documents, for graph rows
  call,          \* history: the last SQLite-side call, its store before and its result
  codec,         \* a call of encode_bq or slice_vector: its arguments and result
  deadline,      \* the deadline of the caller of search
  mcp,           \* the MCP server loop: stdin, stdout, the loop's position
  stage,         \* a direct call of one stage function: its arguments and result
  candle         \* a CandleProvider: its four RwLock fields and the calls on it

kvvars == <<metadata, vectors, bit_index>>
sqlvars == <<documents, vec_documents, vec_bit_documents, entities, vec_entities,
            relationships, uuid, call>>
envvars == <<codec, deadline, mcp, stage, candle>>
vars == <<kvvars, now, config, gm, srch, inserted, sqlvars, envvars>>

EmptyMap == [i \in {} |-> 0]
Get(ks, id) == IF id \in DOMAIN ks THEN Some(ks[id]) ELSE None
Put(ks, id, val) == [i \in DOMAIN ks \cup {id} |-> IF i = id THEN val ELSE ks[i]]
Remove(ks, id) == [i \in DOMAIN ks \ {id} |-> ks[i]]

\* ----------------------------------------------------- storage/tier.rs
current_timestamp == now

\* is_expired with > in place of >=
is_expired_after(expires_at) ==
  IF IsSome(expires_at) THEN current_timestamp > Unwrap(expires_at) ELSE FALSE

is_expired(expires_at) ==
  IF IsSome(expires_at) THEN current_timestamp >= Unwrap(expires_at) ELSE FALSE

\* ------------------------------------------------------- storage/db.rs
MemoryEntry(p) == [metadata |-> p.metadata, tier |-> p.tier, expires_at |-> p.expires_at]

\* serde_json::to_vec(&entry): the JSON object of a MemoryEntry; the tier is
\* written in lowercase (rename_all), expires_at as null or as a number
serde_json_to_vec(entry) ==
  [metadata |-> entry.metadata,
   tier |-> IF entry.tier = "Episodic" THEN "episodic" ELSE "semantic",
   expires_at |-> IF IsSome(entry.expires_at)
                  THEN <<"number", Unwrap(entry.expires_at)>> ELSE <<"null">>]

\* serde_json::from_slice::<MemoryEntry> that takes the default tier
\* (Semantic) in place of the tier written in the entry
serde_json_from_slice_default_tier(m) ==
  [metadata |-> m.metadata,
   tier |-> "Semantic",
   expires_at |-> IF m.expires_at[1] = "null" THEN None ELSE Some(m.expires_at[2])]

\* serde_json::from_slice::<MemoryEntry>: the keyspace only holds what
\* insert_memory has written
serde_json_from_slice(m) ==
  [metadata |-> m.metadata,
   tier |-> IF m.tier = "episodic" THEN "Episodic" ELSE "Semantic",
   expires_at |-> IF m.expires_at[1] = "null" THEN None ELSE Some(m.expires_at[2])]

\* bincode::serialize(&memory.vector): the u64 length, then the components
bincode_serialize(vector) == <<vector.len, [nz |-> vector.nz, div2 |-> vector.div2]>>

\* bincode::deserialize::<Vec<f32>>
bincode_deserialize(v) == [len |-> v[1], nz |-> v[2].nz, div2 |-> v[2].div2]

\* one batch.insert of insert_memory, applied by the commit
batch_insert(ks, id, val) == Put(ks, id, val)

\* one batch.remove of delete_memory, applied by the commit
batch_remove(ks, id) == Remove(ks, id)

\* insert_memory without its batch.insert into the bit index
insert_memory_without_bit_index(id, p, commit_ok) ==
  /\ IF commit_ok
     THEN /\ metadata' = batch_insert(metadata, id, serde_json_to_vec(MemoryEntry(p)))
          /\ vectors' = batch_insert(vectors, id, bincode_serialize(p.vector))
          /\ bit_index' = bit_index
          /\ inserted' = inserted \cup {id}
     ELSE UNCHANGED <<kvvars, inserted>>
  /\ UNCHANGED <<now, config, sqlvars, envvars>>

\* insert_memory: the three inserts become visible together, or not at all
\* when the commit fails
insert_memory(id, p, commit_ok) ==
  /\ IF commit_ok
     THEN /\ metadata' = batch_insert(metadata, id, serde_json_to_vec(MemoryEntry(p)))
          /\ vectors' = batch_insert(vectors, id, bincode_serialize(p.vector))
          /\ bit_index' = batch_insert(bit_index, id, p.bit_vector)
          /\ inserted' = inserted \cup {id}
     ELSE UNCHANGED <<kvvars, inserted>>
  /\ UNCHANGED <<now, config, sqlvars, envvars>>

\* delete_memory without its batch.remove from the bit index
delete_memory_without_bit_index(id, commit_ok) ==
  /\ IF commit_ok
     THEN /\ metadata' = batch_remove(metadata, id)
          /\ vectors' = batch_remove(vectors, id)
          /\ bit_index' = bit_index
          /\ inserted' = inserted \ {id}
     ELSE UNCHANGED <<kvvars, inserted>>
  /\ UNCHANGED <<now, config, sqlvars, envvars>>

\* delete_memory: the three removes become visible together, or not at all
\* when the commit fails
delete_memory(id, commit_ok) ==
  /\ IF commit_ok
     THEN /\ metadata' = batch_remove(metadata, id)
          /\ vectors' = batch_remove(vectors, id)
          /\ bit_index' = batch_remove(bit_index, id)
          /\ inserted' = inserted \ {id}
     ELSE UNCHANGED <<kvvars, inserted>>
  /\ UNCHANGED <<now, config, sqlvars, envvars>>

\* the match of get_memory without the test of is_expired
get_memory_match_ignoring_expiry(id, metadata_res, vector_res, bit_index_res) ==
  IF IsSome(metadata_res) /\ IsSome(vector_res) /\ IsSome(bit_index_res)
  THEN LET entry == serde_json_from_slice(Unwrap(metadata_res))
           vector == bincode_deserialize(Unwrap(vector_res))
       IN Some([id |-> id, metadata |-> entry.metadata,
                vector |-> vector,
                bit_vector |-> Unwrap(bit_index_res),
                tier |-> entry.tier, expires_at |-> entry.expires_at])
  ELSE None

\* the match of get_memory on the three values it has read
get_memory_match(id, metadata_res, vector_res, bit_index_res) ==
  IF IsSome(metadata_res) /\ IsSome(vector_res) /\ IsSome(bit_index_res)
  THEN LET entry == serde_json_from_slice(Unwrap(metadata_res))
           vector == bincode_deserialize(Unwrap(vector_res))
       IN IF is_expired(entry.expires_at) THEN None
          ELSE Some([id |-> id, metadata |-> entry.metadata,
                     vector |-> vector,
                     bit_vector |-> Unwrap(bit_index_res),
                     tier |-> entry.tier, expires_at |-> entry.expires_at])
  ELSE None

\* get_memory run without interruption
get_memory(id) ==
  get_memory_match(id, Get(metadata, id), Get(vectors, id), Get(bit_index, id))

GmIdle == [pc |-> "idle", id |-> 0, m |-> None, v |-> None, res |-> None]

\* get_memory, first read: self.metadata.get
get_memory_read_metadata(id) ==
  /\ gm.pc \in {"idle", "done"}
  /\ gm' = [pc |-> "read_vectors", id |-> id, m |-> Get(metadata, id),
            v |-> None, res |-> None]
  /\ UNCHANGED <<kvvars, now, config, srch, inserted, sqlvars, envvars>>

\* get_memory, second read: self.vectors.get
get_memory_read_vectors ==
  /\ gm.pc = "read_vectors"
  /\ gm' = [gm EXCEPT !.pc = "read_bits", !.v = Get(vectors, gm.id)]
  /\ UNCHANGED <<kvvars, now, config, srch, inserted, sqlvars, envvars>>

\* get_memory, third read (self.bit_index.get) and the match
get_memory_read_bits ==
  /\ gm.pc = "read_bits"
  /\ gm' = [gm EXCEPT !.pc = "done",
                      !.res = get_memory_match(gm.id, gm.m, gm.v, Get(bit_index, gm.id))]
  /\ UNCHANGED <<kvvars, now, config, srch, inserted, sqlvars, envvars>>

\* the rows of the bit index in key order
bit_index_iter(ks) ==
  LET keys == SetToSeq(DOMAIN ks)
  IN [i \in 1..Len(keys) |-> [key |-> keys[i], value |-> ks[keys[i]]]]

\* the clock advances
Tick ==
  /\ now < MaxClock
  /\ now' = now + 1
  /\ UNCHANGED <<kvvars, config, inserted, sqlvars, envvars>>


\* ------------------------------------------------ engine/search_stage1.rs
Ok(x) == [ok |-> TRUE, val |-> x]
Err == [ok |-> FALSE, val |-> <<>>]

\* the ids of the rows the scan iterates over
scanned_ids(ks) ==
  LET rows == bit_index_iter(ks) IN {rows[i].key : i \in 1..Len(rows)}

hamming_scan(ks, query_bits, k) ==
  LET rows == bit_index_iter(ks)
      RECURSIVE Push(_)
      Push(i) ==
        IF i > Len(rows) THEN <<>>
        ELSE LET dist == hamming(query_bits, rows[i].value)
             IN (IF IsSome(dist)
                 THEN <<[id |-> rows[i].key, distance |-> Unwrap(dist)]>>
                 ELSE <<>>) \o Push(i + 1)
      results == Push(1)
      ByDistance(a, b) == a.distance < b.distance
  IN truncate(StableSort(results, [i, j \in 1..Len(results) |->
                                     ByDistance(results[i], results[j])]), k)

\* ------------------------------------------------ engine/search_stage2.rs
target_dim == 256

\* the comparator with its operands swapped: lower similarity first
ByScoreAsc(a, b) == ScoreLt(a.score, b.score)

\* the comparator b.1.partial_cmp(&a.1): higher similarity first
ByScoreDesc(a, b) == ScoreLt(b.score, a.score)

\* search_stage2.rs line 14: the query cut to target_dim components
sliced_query(query_vector) == slice_vector(query_vector, target_dim)

matryoshka_refinement(query_vector, candidate_ids, top_k) ==
  LET Cand(i) == get_memory(candidate_ids[i])
      Sliced(i) == slice_vector(Unwrap(Cand(i)).vector, target_dim)
      Sim(i) == cos_similarity(Unwrap(sliced_query(query_vector)), Unwrap(Sliced(i)))
      Fails(i) == IsSome(Cand(i)) /\ (~IsSome(Sliced(i)) \/ ~IsSome(Sim(i)))
      RECURSIVE Push(_)
      Push(i) ==
        IF i > Len(candidate_ids) THEN <<>>
        ELSE (IF IsSome(Cand(i))
              THEN <<[id |-> candidate_ids[i], score |-> Unwrap(Sim(i))]>>
              ELSE <<>>) \o Push(i + 1)
  IN IF ~IsSome(sliced_query(query_vector)) THEN Err
     ELSE IF \E i \in 1..Len(candidate_ids) : Fails(i) THEN Err
     ELSE LET scores == Push(1)
          IN Ok(truncate(StableSort(scores, [i, j \in 1..Len(scores) |->
                                      ByScoreDesc(scores[i], scores[j])]), top_k))

\* ------------------------------------------------ engine/search_stage3.rs
\* full_rerank that returns an error for a candidate get_memory does not
\* return
full_rerank_failing_on_missing(query_vector, candidate_ids, top_k) ==
  LET Cand(i) == get_memory(candidate_ids[i])
      Sim(i) == cos_similarity(query_vector, Unwrap(Cand(i)).vector)
      Fails(i) == ~IsSome(Cand(i)) \/ ~IsSome(Sim(i))
      scores == [i \in 1..Len(candidate_ids) |->
                   [id |-> candidate_ids[i], score |-> Unwrap(Sim(i)),
                    metadata |-> Unwrap(Cand(i)).metadata]]
  IN IF \E i \in 1..Len(candidate_ids) : Fails(i) THEN Err
     ELSE Ok(truncate(StableSort(scores, [i, j \in 1..Len(scores) |->
                                   ByScoreDesc(scores[i], scores[j])]), top_k))

full_rerank(query_vector, candidate_ids, top_k) ==
  LET Cand(i) == get_memory(candidate_ids[i])
      Sim(i) == cos_similarity(query_vector, Unwrap(Cand(i)).vector)
      Fails(i) == IsSome(Cand(i)) /\ ~IsSome(Sim(i))
      RECURSIVE Push(_)
      Push(i) ==
        IF i > Len(candidate_ids) THEN <<>>
        ELSE (IF IsSome(Cand(i))
              THEN <<[id |-> candidate_ids[i], score |-> Unwrap(Sim(i)),
                      metadata |-> Unwrap(Cand(i)).metadata]>>
              ELSE <<>>) \o Push(i + 1)
  IN IF \E i \in 1..Len(candidate_ids) : Fails(i) THEN Err
     ELSE LET scores == Push(1)
          IN Ok(truncate(StableSort(scores, [i, j \in 1..Len(scores) |->
                                      ByScoreDesc(scores[i], scores[j])]), top_k))

\* ------------------------------------- the stage functions called directly
StageIdle == [op |-> "none", q |-> vC, ids |-> <<>>, k |-> 0, ok |-> TRUE, val |-> <<>>,
              short |-> None]

\* the lists of distinct ids a caller passes as candidate_ids
CandidateLists ==
  {c \in UNION {[1..n -> IdSet] : n \in 0..NumIds} :
     \A i, j \in 1..Len(c) : c[i] = c[j] => i = j}

\* hamming_scan(db, &encode_bq(query_vector), k)
hamming_scan_call(query_vector, k) ==
  /\ stage.op = "none"
  /\ stage' = [op |-> "hamming_scan", q |-> query_vector, ids |-> <<>>, k |-> k,
               ok |-> TRUE, val |-> hamming_scan(bit_index, encode_bq(query_vector), k),
               short |-> None]
  /\ UNCHANGED <<kvvars, now, config, gm, srch, inserted, sqlvars, codec, deadline, mcp, candle>>

\* matryoshka_refinement(db, query_vector, candidate_ids, top_k); short is
\* the sliced query the call has worked with (None when the slice failed)
matryoshka_refinement_call(query_vector, candidate_ids, top_k) ==
  LET r == matryoshka_refinement(query_vector, candidate_ids, top_k)
  IN /\ stage.op = "none"
     /\ stage' = [op |-> "matryoshka_refinement", q |-> query_vector,
                  ids |-> candidate_ids, k |-> top_k, ok |-> r.ok, val |-> r.val,
                  short |-> sliced_query(query_vector)]
     /\ UNCHANGED <<kvvars, now, config, gm, srch, inserted, sqlvars, codec, deadline, mcp, candle>>

\* full_rerank(db, query_vector, candidate_ids, top_k)
full_rerank_call(query_vector, candidate_ids, top_k) ==
  LET r == full_rerank(query_vector, candidate_ids, top_k)
  IN /\ stage.op = "none"
     /\ stage' = [op |-> "full_rerank", q |-> query_vector,
                  ids |-> candidate_ids, k |-> top_k, ok |-> r.ok, val |-> r.val,
                  short |-> None]
     /\ UNCHANGED <<kvvars, now, config, gm, srch, inserted, sqlvars, codec, deadline, mcp, candle>>

\* the caller takes the result of the stage function
stage_return ==
  /\ stage.op # "none"
  /\ stage' = StageIdle
  /\ UNCHANGED <<kvvars, now, config, gm, srch, inserted, sqlvars, codec, deadline, mcp, candle>>

\* ------------------------------------------------------ engine/funnel.rs
SrchIdle ==
  [pc |-> "idle", q |-> vC, top_k |-> 0, s1 |-> <<>>, s2 |-> <<>>,
   out |-> <<>>, err |-> FALSE, must |-> {}, scanned |-> {}, earlier |-> None]

\* search without the short-circuit on an empty Stage 1
after_stage1_no_short_circuit(stage1_ids) == "stage2"

\* search, lines 33-35: the short-circuit on an empty Stage 1
after_stage1(stage1_ids) == IF stage1_ids = <<>> THEN "done" ELSE "stage2"

\* search without the short-circuit on an empty Stage 2
after_stage2_no_short_circuit(stage2_ids) == "stage3"

\* search, lines 46-48: the short-circuit on an empty Stage 2
after_stage2(stage2_ids) == IF stage2_ids = <<>> THEN "done" ELSE "stage3"

\* search, lines 29-37: encode the query and run the Hamming scan
stage1_step(s) ==
  LET query_bits == encode_bq(s.q)
      stage1_ids == Ids(hamming_scan(bit_index, query_bits, config.stage1_k))
  IN [s EXCEPT !.pc = after_stage1(stage1_ids), !.s1 = stage1_ids,
               !.scanned = scanned_ids(bit_index)]

\* search, lines 39-50: the Matryoshka refinement
stage2_step(s) ==
  LET r == matryoshka_refinement(s.q, s.s1, config.stage2_k)
  IN IF r.ok THEN [s EXCEPT !.pc = after_stage2(Ids(r.val)), !.s2 = Ids(r.val)]
     ELSE [s EXCEPT !.pc = "done", !.err = TRUE]

\* search, lines 52-63: the full rerank and the packaging of the results
stage3_step(s) ==
  LET r == full_rerank(s.q, s.s2, s.top_k)
  IN IF r.ok THEN [s EXCEPT !.pc = "done", !.out = r.val]
     ELSE [s EXCEPT !.pc = "done", !.err = TRUE]

\* search entered with the candidate lists and the results of the previous
\* call still in place
search_enter_keeping_results(query_vector, top_k) ==
  [srch EXCEPT !.pc = "stage1", !.q = query_vector, !.top_k = top_k,
               !.must = inserted, !.earlier = None]

\* search is entered: its locals are fresh on every call, SearchFunnel
\* holds only the references db and config
search_enter(query_vector, top_k) ==
  [SrchIdle EXCEPT !.pc = "stage1", !.q = query_vector, !.top_k = top_k,
                   !.must = inserted]

\* SearchFunnel::search from the call to the result
search_body(entered) ==
  LET a == stage1_step(entered)
      b == IF a.pc = "stage2" THEN stage2_step(a) ELSE a
  IN IF b.pc = "stage3" THEN stage3_step(b) ELSE b

\* SearchFunnel::search that also removes the rows of the expired memories
search_purging_expired(query_vector, top_k) ==
  LET live == {i \in DOMAIN metadata :
                 ~is_expired(serde_json_from_slice(metadata[i]).expires_at)}
  IN /\ srch.pc = "idle"
     /\ srch' = search_body(search_enter(query_vector, top_k))
     /\ metadata' = [i \in live |-> metadata[i]]
     /\ vectors' = [i \in live \cap DOMAIN vectors |-> vectors[i]]
     /\ bit_index' = [i \in live \cap DOMAIN bit_index |-> bit_index[i]]
     /\ UNCHANGED <<now, config, gm, inserted, sqlvars, envvars>>

\* SearchFunnel::search run without interruption
search(query_vector, top_k) ==
  /\ srch.pc = "idle"
  /\ srch' = search_body(search_enter(query_vector, top_k))
  /\ UNCHANGED <<kvvars, now, config, gm, inserted, sqlvars, envvars>>

\* a caller enters SearchFunnel::search; other threads run before the scan
search_call(query_vector, top_k) ==
  /\ srch.pc = "idle"
  /\ srch' = search_enter(query_vector, top_k)
  /\ UNCHANGED <<kvvars, now, config, gm, inserted, sqlvars, envvars>>

\* the search that was entered runs: the scan and the two later stages
search_run ==
  /\ srch.pc = "stage1"
  /\ srch' = search_body(srch)
  /\ UNCHANGED <<kvvars, now, config, gm, inserted, sqlvars, envvars>>

\* the caller takes the result
search_return ==
  /\ srch.pc = "done"
  /\ srch' = SrchIdle
  /\ UNCHANGED <<kvvars, now, config, gm, inserted, sqlvars, envvars>>

\* what a returned search was asked and what it answered
Answer(s) == [q |-> s.q, top_k |-> s.top_k, out |-> s.out, err |-> s.err]

\* SearchFunnel::search called again on the same SearchFunnel, right after
\* an earlier call has returned or as the first call
repeat_search(query_vector, top_k) ==
  /\ srch.pc \in {"idle", "done"}
  /\ srch' = [search_body(search_enter(query_vector, top_k)) EXCEPT
               !.earlier = IF srch.pc = "done" /\ srch.earlier = None
                           THEN Some(Answer(srch)) ELSE srch.earlier]
  /\ UNCHANGED <<kvvars, now, config, gm, inserted, sqlvars, envvars>>

\* a caller with a deadline enters SearchFunnel::search; search itself takes
\* only the query and top_k
deadline_search_call(query_vector, top_k, d) ==
  /\ srch.pc = "idle"
  /\ srch' = search_enter(query_vector, top_k)
  /\ deadline' = d
  /\ UNCHANGED <<kvvars, now, config, gm, inserted, sqlvars, codec, mcp, stage, candle>>

\* search, lines 29-37, as a step of its own
stage1_run ==
  /\ srch.pc = "stage1"
  /\ srch' = stage1_step(srch)
  /\ UNCHANGED <<kvvars, now, config, gm, inserted, sqlvars, envvars>>

\* search, lines 39-50, as a step of its own
stage2_run ==
  /\ srch.pc = "stage2"
  /\ srch' = stage2_step(srch)
  /\ UNCHANGED <<kvvars, now, config, gm, inserted, sqlvars, envvars>>

\* search, lines 52-63, as a step of its own
stage3_run ==
  /\ srch.pc = "stage3"
  /\ srch' = stage3_step(srch)
  /\ UNCHANGED <<kvvars, now, config, gm, inserted, sqlvars, envvars>>

\* the caller with a deadline takes the result
deadline_search_return ==
  /\ srch.pc = "done"
  /\ srch' = SrchIdle
  /\ deadline' = 0
  /\ UNCHANGED <<kvvars, now, config, gm, inserted, sqlvars, codec, mcp, stage, candle>>

\* a delete that commits after a search was entered ends the search's
\* obligation to see the deleted id
Forget(id, commit_ok) ==
  IF commit_ok /\ srch.pc = "stage1" THEN [srch EXCEPT !.must = @ \ {id}] ELSE srch

\* --------------------------------------------------- storage/sqlite.rs
\* the dimension of the vec0 columns created by initialize
embedding_dim == 768

MaxDocs == 2
MaxGraphIds == 3

w768 == [len |-> 768, nz |-> (0 :> 1), div2 |-> 1]
Embeddings == {w768, vC}
Names == {"a", "b"}

\* rows left by the two INSERT statements of insert_document, each its own
\* implicit transaction: the first fails on an existing id, the second on
\* an existing id and on a vector that is not float[768]
insert_document(docs, vdocs, id, title, content, meta, vector) ==
  LET row == [title |-> title, content |-> content, metadata |-> meta,
              created_at |-> current_timestamp]
      docs1 == Put(docs, id, row)
  IN IF id \in DOMAIN docs
     THEN [ok |-> FALSE, documents |-> docs, vec_documents |-> vdocs]
     ELSE IF id \in DOMAIN vdocs \/ vector.len # embedding_dim
     THEN [ok |-> FALSE, documents |-> docs1, vec_documents |-> vdocs]
     ELSE [ok |-> TRUE, documents |-> docs1, vec_documents |-> Put(vdocs, id, vector)]

\* the id of the first entities row with the name
get_entity_by_name(ents, name) ==
  LET hits == {i \in DOMAIN ents : ents[i].name = name}
  IN IF hits = {} THEN None ELSE Some(CHOOSE i \in hits : \A j \in hits : i <= j)

\* insert_entity without the lookup of the name
insert_entity_without_lookup(st, name, entity_type, description, vector) ==
  LET id == st.uuid + 1
      row == [name |-> name, type |-> entity_type, description |-> description]
      st1 == [st EXCEPT !.uuid = id, !.entities = Put(st.entities, id, row)]
  IN IF ~IsSome(vector) THEN [ok |-> TRUE, id |-> id, st |-> st1]
     ELSE IF Unwrap(vector).len # embedding_dim THEN [ok |-> FALSE, id |-> id, st |-> st1]
     ELSE [ok |-> TRUE, id |-> id,
           st |-> [st1 EXCEPT !.vec_entities = Put(st.vec_entities, id, Unwrap(vector))]]

\* st holds the graph tables and the uuid counter
insert_entity(st, name, entity_type, description, vector) ==
  LET found == get_entity_by_name(st.entities, name)
      id == st.uuid + 1
      row == [name |-> name, type |-> entity_type, description |-> description]
      st1 == [st EXCEPT !.uuid = id, !.entities = Put(st.entities, id, row)]
  IN IF IsSome(found) THEN [ok |-> TRUE, id |-> Unwrap(found), st |-> st]
     ELSE IF ~IsSome(vector) THEN [ok |-> TRUE, id |-> id, st |-> st1]
     ELSE IF Unwrap(vector).len # embedding_dim THEN [ok |-> FALSE, id |-> id, st |-> st1]
     ELSE [ok |-> TRUE, id |-> id,
           st |-> [st1 EXCEPT !.vec_entities = Put(st.vec_entities, id, Unwrap(vector))]]

insert_relationship(st, source_id, target_id, predicate, description) ==
  LET id == st.uuid + 1
      row == [source_id |-> source_id, target_id |-> target_id,
              predicate |-> predicate, description |-> description]
  IN [st EXCEPT !.uuid = id, !.relationships = Put(st.relationships, id, row)]

GraphState ==
  [entities |-> entities, vec_entities |-> vec_entities,
   relationships |-> relationships, uuid |-> uuid.graph]

\* ------------------------------------------------- engine/ingestion.rs
\* what the extractor LLM answers: an error, text that is no JSON, or a graph
LlmAnswers ==
  { [kind |-> "error", entities |-> <<>>, relationships |-> <<>>],
    [kind |-> "not_json", entities |-> <<>>, relationships |-> <<>>],
    [kind |-> "graph", entities |-> <<"a", "b">>,
     relationships |-> <<[source |-> "a", target |-> "b"]>>],
    [kind |-> "graph", entities |-> <<"a">>,
     relationships |-> <<[source |-> "a", target |-> "c"]>>] }

\* extract_and_store_graph: Err when the LLM call fails, Ok without a write
\* when the answer does not parse, else the entities and then the
\* relationships whose two ends are found by name
extract_and_store_graph(st, answer) ==
  LET RECURSIVE Ents(_, _)
      Ents(t, i) ==
        IF i > Len(answer.entities) THEN t
        ELSE Ents(insert_entity(t, answer.entities[i], "Concept", "", None).st, i + 1)
      RECURSIVE Rels(_, _)
      Rels(t, i) ==
        IF i > Len(answer.relationships) THEN t
        ELSE LET s == get_entity_by_name(t.entities, answer.relationships[i].source)
                 tg == get_entity_by_name(t.entities, answer.relationships[i].target)
             IN Rels(IF IsSome(s) /\ IsSome(tg)
                     THEN insert_relationship(t, Unwrap(s), Unwrap(tg), "", "")
                     ELSE t, i + 1)
  IN IF answer.kind = "error" THEN [ok |-> FALSE, st |-> st]
     ELSE IF answer.kind = "not_json" THEN [ok |-> TRUE, st |-> st]
     ELSE [ok |-> TRUE, st |-> Rels(Ents(st, 1), 1)]

\* IngestionPipeline::run(text, metadata): embedded is the embedder's
\* answer (None for an error), llm the extractor's answer (None without an
\* extractor)
run(text, meta, embedded, llm) ==
  LET id == uuid.doc + 1
      full_metadata == [title |-> meta.title, text |-> Some(text)]
      title == IF IsSome(meta.title) THEN Unwrap(meta.title) ELSE "Untitled"
      ins == insert_document(documents, vec_documents, id, title, text,
                             full_metadata, Unwrap(embedded))
      ext == IF IsSome(llm) THEN extract_and_store_graph(GraphState, Unwrap(llm))
             ELSE [ok |-> TRUE, st |-> GraphState]
  IN /\ id <= MaxDocs
     /\ IF ~IsSome(embedded)
        THEN /\ UNCHANGED <<documents, vec_documents, entities, vec_entities,
                            relationships, uuid>>
             /\ call' = [op |-> "run", ok |-> FALSE, id |-> id]
        ELSE /\ documents' = ins.documents
             /\ vec_documents' = ins.vec_documents
             /\ IF ins.ok
                THEN /\ ext.st.uuid <= MaxGraphIds
                     /\ entities' = ext.st.entities
                     /\ vec_entities' = ext.st.vec_entities
                     /\ relationships' = ext.st.relationships
                     /\ uuid' = [doc |-> id, graph |-> ext.st.uuid]
                     /\ call' = [op |-> "run", ok |-> ext.ok, id |-> id]
                ELSE /\ UNCHANGED <<entities, vec_entities, relationships>>
                     /\ uuid' = [uuid EXCEPT !.doc = id]
                     /\ call' = [op |-> "run", ok |-> FALSE, id |-> id]
     /\ UNCHANGED <<kvvars, now, config, gm, srch, inserted, vec_bit_documents>>

\* a direct call of SqliteDatabase::insert_document
insert_document_call(id, vector) ==
  LET ins == insert_document(documents, vec_documents, id, "t", "x",
                             [title |-> Some("t"), text |-> None], vector)
  IN /\ id <= MaxDocs
     /\ documents' = ins.documents
     /\ vec_documents' = ins.vec_documents
     /\ uuid' = (IF id > uuid.doc THEN [uuid EXCEPT !.doc = id] ELSE uuid)
     /\ call' = [op |-> "insert_document", ok |-> ins.ok, id |-> id]
     /\ UNCHANGED <<envvars, kvvars, now, config, gm, srch, inserted, vec_bit_documents,
                    entities, vec_entities, relationships>>

\* a direct call of SqliteDatabase::insert_entity
insert_entity_call(name, vector) ==
  LET r == insert_entity(GraphState, name, "Concept", "", vector)
  IN /\ r.st.uuid <= MaxGraphIds
     /\ entities' = r.st.entities
     /\ vec_entities' = r.st.vec_entities
     /\ uuid' = [uuid EXCEPT !.graph = r.st.uuid]
     /\ call' = [op |-> "insert_entity", ok |-> r.ok, id |-> r.id]
     /\ UNCHANGED <<envvars, kvvars, now, config, gm, srch, inserted, documents, vec_documents,
                    vec_bit_documents, relationships>>

\* ------------------------------------------------------------ main.rs
MaxLines == 3

\* the lines a client writes to the server's stdin: an empty line, bytes
\* that are not UTF-8, text that is not JSON, and JSON-RPC requests; a
\* request carries as id its position in the input, a notification none
Lines ==
  {"blank", "not_utf8", "not_json", "initialize", "tools/list", "notification",
   "call_memory_insert", "call_memory_insert_no_text", "call_memory_search",
   "call_unknown_tool"}

\* request.get("id").cloned().unwrap_or(Value::Null), for the n-th line
request_id(line, n) == IF line \in {"notification"} THEN None ELSE Some(n)

\* the server before its first read_line; embedder says if load_model
\* succeeded
McpIdle == [pc |-> "read_line", input |-> <<>>, n |-> 0, stdout |-> <<>>,
            embedder |-> TRUE]

result_response(id) == [id |-> id, kind |-> "result", code |-> 0]
error_response(id, code) == [id |-> id, kind |-> "error", code |-> code]

\* one turn of the while loop of main: read_line, then the answer to the
\* line. enc is the embedder's answer to a tool call (None for an error).
serve_line(enc) ==
  LET n == mcp.n + 1
      line == mcp.input[n]
      id == request_id(line, n)
      println(response) == [mcp EXCEPT !.n = n, !.stdout = Append(@, response)]
      frame == UNCHANGED <<kvvars, now, config, gm, srch, inserted, sqlvars,
                           codec, deadline, stage, candle>>
  IN /\ mcp.pc = "read_line"
     /\ IF mcp.n = Len(mcp.input)
        THEN \* read_line returns 0: end of input
             mcp' = [mcp EXCEPT !.pc = "exited_ok"] /\ frame
        ELSE IF line = "not_utf8"
        THEN \* read_line returns Err(InvalidData), `?` leaves main
             mcp' = [mcp EXCEPT !.n = n, !.pc = "exited_err"] /\ frame
        ELSE IF line = "blank"
        THEN mcp' = [mcp EXCEPT !.n = n] /\ frame
        ELSE IF line = "not_json"
        THEN mcp' = println(error_response(None, 0 - 32700)) /\ frame
        ELSE IF line \in {"initialize", "tools/list", "notification"}
        THEN mcp' = println(result_response(id)) /\ frame
        ELSE IF line = "call_unknown_tool"
        THEN mcp' = println(error_response(id, 0 - 32601)) /\ frame
        ELSE IF ~mcp.embedder
        THEN mcp' = println(error_response(id, 0 - 32603)) /\ frame
        ELSE IF line = "call_memory_insert_no_text"
        THEN mcp' = println(error_response(id, 0 - 32603)) /\ frame
        ELSE IF line = "call_memory_search"
        THEN LET r == IF IsSome(enc) THEN search_body(search_enter(Unwrap(enc), 5))
                      ELSE [SrchIdle EXCEPT !.err = TRUE]
             IN /\ mcp' = println(IF r.err THEN error_response(id, 0 - 32603)
                                  ELSE result_response(id))
                /\ frame
        ELSE \* memory_insert
             /\ run("x", [title |-> None], enc, None)
             /\ mcp' = println(IF call'.ok THEN result_response(id)
                               ELSE error_response(id, 0 - 32603))
             /\ UNCHANGED <<codec, deadline, stage, candle>>

\* ------------------------------------------- calls of the vector codec
MaxLen == 9
MaxNz == 2

\* the float vectors the codec is called with: up to MaxLen components, of
\* which up to MaxNz are not zero (negative or positive)
CodecVectors ==
  UNION { { [len |-> n, nz |-> f, div2 |-> 1] :
              f \in UNION { [S -> {0 - 1, 2}] :
                              S \in {T \in SUBSET (0..(n - 1)) : Cardinality(T) <= MaxNz} } } :
          n \in 0..MaxLen }

CodecIdle == [op |-> "none", v |-> vC, m |-> 0, out |-> None]

\* bq::encode_bq(&v)
encode_bq_call ==
  /\ codec.op = "none"
  /\ codec' = [codec EXCEPT !.op = "encode_bq", !.out = Some(encode_bq(codec.v))]
  /\ UNCHANGED <<kvvars, now, config, gm, srch, inserted, sqlvars, deadline, mcp, stage, candle>>

\* vectors::encode_bq(&v)
vectors_encode_bq_call ==
  /\ codec.op = "none"
  /\ codec' = [codec EXCEPT !.op = "vectors_encode_bq",
                            !.out = Some(vectors_encode_bq(codec.v))]
  /\ UNCHANGED <<kvvars, now, config, gm, srch, inserted, sqlvars, deadline, mcp, stage, candle>>

\* matryoshka::slice_vector(&v, m): out is None for Err
slice_vector_call(m) ==
  /\ codec.op = "none"
  /\ codec' = [codec EXCEPT !.op = "slice_vector", !.m = m,
                            !.out = slice_vector(codec.v, m)]
  /\ UNCHANGED <<kvvars, now, config, gm, srch, inserted, sqlvars, deadline, mcp, stage, candle>>

\* vectors::slice_vector(&v, m), which returns a Vec<f32>
vectors_slice_vector_call(m) ==
  /\ codec.op = "none"
  /\ codec' = [codec EXCEPT !.op = "vectors_slice_vector", !.m = m,
                            !.out = Some(vectors_slice_vector(codec.v, m))]
  /\ UNCHANGED <<kvvars, now, config, gm, srch, inserted, sqlvars, deadline, mcp, stage, candle>>

\* ----------------------------------------------------- model/candle.rs
NumTasks == 2

\* the tasks that call one CandleProvider concurrently
Tasks == 1..NumTasks

\* the locks a call acquires, in the order of its .await points
load_bert_locks ==
  << <<"bert", "write">>, <<"tokenizer", "write">>, <<"dimension", "write">> >>

\* load_phi3 taking the tokenizer lock before the phi3 lock
load_phi3_locks_tokenizer_first == << <<"tokenizer", "write">>, <<"phi3", "write">> >>

load_phi3_locks == << <<"phi3", "write">>, <<"tokenizer", "write">> >>

\* complete with a loaded phi3; with phi3 = None it takes phi3.write only
complete_locks == << <<"phi3", "write">>, <<"tokenizer", "read">> >>

embed_locks == << <<"bert", "read">>, <<"tokenizer", "read">> >>

CandleOps == {"load_bert", "load_phi3", "complete", "embed"}

\* tokio::sync::RwLock: the writer or the readers that hold it, and the
\* waiters in the order of their requests
LockFree == [writer |-> 0, readers |-> {}, queue |-> <<>>]

TaskIdle == [op |-> "none", pc |-> "idle", held |-> 0]

\* CandleProvider::new: no model, no tokenizer, dimension 768
CandleNew ==
  [bert |-> None, phi3 |-> None, tokenizer |-> None, dimension |-> "768",
   lock |-> [l \in {"bert", "phi3", "tokenizer", "dimension"} |-> LockFree],
   task |-> [t \in Tasks |-> TaskIdle]]

\* the locks a call of op acquires before its body runs, when it holds
\* `held` of them and sees phi3 as it is
needed(op, held) ==
  IF op = "load_bert" THEN load_bert_locks
  ELSE IF op = "load_phi3" THEN load_phi3_locks
  ELSE IF op = "embed" THEN embed_locks
  ELSE IF held >= 1 /\ candle.phi3 = None THEN SubSeq(complete_locks, 1, 1)
  ELSE complete_locks

\* a task calls load_bert, load_phi3, complete or embed and reaches the
\* first .await, where it joins the waiters of the lock
candle_call(t, op) ==
  LET nxt == needed(op, 0)[1]
  IN /\ candle.task[t].pc = "idle"
     /\ candle' = [candle EXCEPT !.task[t] = [op |-> op, pc |-> "waiting", held |-> 0],
                                 !.lock[nxt[1]].queue = Append(@, <<t, nxt[2]>>)]
     /\ UNCHANGED <<kvvars, now, config, gm, srch, inserted, sqlvars, codec, deadline,
                    mcp, stage>>

\* the first waiter gets the lock, a writer when nobody holds it, a reader
\* when no writer holds it; the call goes on to its next .await, where it
\* joins the waiters, or to its body
candle_grant(t) ==
  LET tk == candle.task[t]
      got == needed(tk.op, tk.held)[tk.held + 1]
      lk == candle.lock[got[1]]
      granted == [writer |-> IF got[2] = "write" THEN t ELSE 0,
                  readers |-> IF got[2] = "read" THEN lk.readers \cup {t}
                              ELSE lk.readers,
                  queue |-> Tail(lk.queue)]
      \* phi3 is read under the guard just taken
      todo == needed(tk.op, tk.held + 1)
  IN /\ tk.pc = "waiting"
     /\ lk.queue # <<>>
     /\ Head(lk.queue)[1] = t
     /\ lk.writer = 0
     /\ got[2] = "write" => lk.readers = {}
     /\ IF tk.held + 1 < Len(todo)
        THEN LET nxt == todo[tk.held + 2]
             IN candle' = [candle EXCEPT
                             !.task[t].held = @ + 1,
                             !.lock[got[1]] = granted,
                             !.lock[nxt[1]].queue = Append(@, <<t, nxt[2]>>)]
        ELSE candle' = [candle EXCEPT
                          !.task[t].held = @ + 1,
                          !.task[t].pc = "body",
                          !.lock[got[1]] = granted]
     /\ UNCHANGED <<kvvars, now, config, gm, srch, inserted, sqlvars, codec, deadline,
                    mcp, stage>>

\* the guards of task t are dropped
released(locks, t) ==
  [l \in DOMAIN locks |->
     [locks[l] EXCEPT !.writer = IF @ = t THEN 0 ELSE @, !.readers = @ \ {t}]]

\* the body of the call, run with all its guards, and its return, which
\* drops the guards; ok says whether the files load. A load returns at once
\* when its model is Some, and writes only after everything has loaded.
candle_body(t, ok) ==
  LET tk == candle.task[t]
      loads == \/ tk.op = "load_bert" /\ candle.bert = None /\ ok
               \/ tk.op = "load_phi3" /\ candle.phi3 = None /\ ok
  IN /\ tk.pc = "body"
     /\ candle' = [candle EXCEPT
                     !.bert = IF loads /\ tk.op = "load_bert" THEN Some(t) ELSE @,
                     !.phi3 = IF loads /\ tk.op = "load_phi3" THEN Some(t) ELSE @,
                     !.tokenizer = IF loads THEN Some(<<tk.op, t>>) ELSE @,
                     !.dimension = IF loads /\ tk.op = "load_bert"
                                   THEN "hidden_size" ELSE @,
                     !.lock = released(candle.lock, t),
                     !.task[t] = TaskIdle]
     /\ UNCHANGED <<kvvars, now, config, gm, srch, inserted, sqlvars, codec, deadline,
                    mcp, stage>>

\* ------------------------------------------------------ specifications
SqlInit ==
  /\ documents = EmptyMap
  /\ vec_documents = EmptyMap
  /\ vec_bit_documents = EmptyMap
  /\ entities = EmptyMap
  /\ vec_entities = EmptyMap
  /\ relationships = EmptyMap
  /\ uuid = [doc |-> 0, graph |-> 0]
  /\ call = [op |-> "none", ok |-> TRUE, id |-> 0]

\* the stores and the calls in progress, before the first call
StoreInit ==
  /\ metadata = EmptyMap
  /\ vectors = EmptyMap
  /\ bit_index = EmptyMap
  /\ now = 0
  /\ gm = GmIdle
  /\ srch = SrchIdle
  /\ inserted = {}
  /\ SqlInit

Init ==
  /\ StoreInit
  /\ config \in [stage1_k : 1..MaxK, stage2_k : 1..MaxK]
  /\ codec = CodecIdle
  /\ deadline = 0
  /\ mcp = McpIdle
  /\ stage = StageIdle
  /\ candle = CandleNew

\* one caller at a time: a call runs to its end, srch holds the result of
\* the search until the caller takes it
Next ==
  \/ \E id \in IdSet, p \in Payloads, commit_ok \in BOOLEAN :
       srch.pc = "idle" /\ insert_memory(id, p, commit_ok) /\ UNCHANGED <<srch, gm>>
  \/ \E id \in IdSet, commit_ok \in BOOLEAN :
       srch.pc = "idle" /\ delete_memory(id, commit_ok) /\ UNCHANGED <<srch, gm>>
  \/ \E q \in Queries, top_k \in 0..MaxTopK : search(q, top_k)
  \/ search_return
  \/ srch.pc = "idle" /\ Tick /\ UNCHANGED <<srch, gm>>

Spec == Init /\ [][Next]_vars

\* a searcher next to a writer: writes commit between the call of search
\* and its scan of the bit index
NextFunnel ==
  \/ \E id \in IdSet, p \in Payloads, commit_ok \in BOOLEAN :
       srch.pc # "done" /\ insert_memory(id, p, commit_ok) /\ UNCHANGED <<srch, gm>>
  \/ \E id \in IdSet, commit_ok \in BOOLEAN :
       srch.pc # "done" /\ delete_memory(id, commit_ok)
         /\ srch' = Forget(id, commit_ok) /\ gm' = gm
  \/ \E q \in Queries, top_k \in 0..MaxTopK : search_call(q, top_k)
  \/ search_run
  \/ search_return
  \/ srch.pc # "done" /\ Tick /\ UNCHANGED <<srch, gm>>

SpecFunnel == Init /\ [][NextFunnel]_vars

\* a get_memory reader next to a writer
NextReader ==
  \/ \E id \in IdSet, p \in Payloads, commit_ok \in BOOLEAN :
       insert_memory(id, p, commit_ok) /\ UNCHANGED <<srch, gm>>
  \/ \E id \in IdSet, commit_ok \in BOOLEAN :
       delete_memory(id, commit_ok) /\ UNCHANGED <<srch, gm>>
  \/ \E id \in IdSet : get_memory_read_metadata(id)
  \/ get_memory_read_vectors
  \/ get_memory_read_bits
  \/ Tick /\ UNCHANGED <<srch, gm>>

SpecReader == Init /\ [][NextReader]_vars

\* the SQLite store with its ingestion pipeline
NextSqlite ==
  \/ \E meta \in {[title |-> None], [title |-> Some("t")]},
        embedded \in {None} \cup {Some(v) : v \in Embeddings},
        llm \in {None} \cup {Some(a) : a \in LlmAnswers} :
       run("x", meta, embedded, llm) /\ UNCHANGED envvars
  \/ \E id \in DOMAIN documents \cup {uuid.doc + 1}, v \in Embeddings :
       insert_document_call(id, v)
  \/ \E name \in Names, vector \in {None} \cup {Some(v) : v \in Embeddings} :
       insert_entity_call(name, vector)

InitSqlite == Init /\ config = [stage1_k |-> 1, stage2_k |-> 1]

SpecSqlite == InitSqlite /\ [][NextSqlite]_vars

\* a search whose stages are steps of their own, the clock advancing in
\* between, called with a deadline
InitStaged == Init /\ config = [stage1_k |-> MaxK, stage2_k |-> MaxK]

NextStaged ==
  \/ \E id \in IdSet, p \in Payloads, commit_ok \in BOOLEAN :
       srch.pc = "idle" /\ insert_memory(id, p, commit_ok) /\ UNCHANGED <<srch, gm>>
  \/ \E id \in IdSet, commit_ok \in BOOLEAN :
       srch.pc = "idle" /\ delete_memory(id, commit_ok) /\ UNCHANGED <<srch, gm>>
  \/ \E q \in Queries, top_k \in 0..MaxTopK, d \in 0..MaxClock :
       deadline_search_call(q, top_k, d)
  \/ stage1_run
  \/ stage2_run
  \/ stage3_run
  \/ deadline_search_return
  \/ srch.pc # "done" /\ Tick /\ UNCHANGED <<srch, gm>>

SpecStaged == InitStaged /\ [][NextStaged]_vars

\* searches one after the other on one SearchFunnel; a write or a clock
\* tick ends the comparison with the earlier searches
NextRepeat ==
  \/ \E id \in IdSet, p \in Payloads, commit_ok \in BOOLEAN :
       insert_memory(id, p, commit_ok) /\ srch' = SrchIdle /\ gm' = gm
  \/ \E id \in IdSet, commit_ok \in BOOLEAN :
       delete_memory(id, commit_ok) /\ srch' = SrchIdle /\ gm' = gm
  \/ \E q \in Queries, top_k \in {1, MaxTopK} : repeat_search(q, top_k)
  \/ Tick /\ srch' = SrchIdle /\ gm' = gm

SpecRepeat == InitStaged /\ [][NextRepeat]_vars

\* the three stage functions called directly, one call at a time, between
\* writes and clock ticks
NextStages ==
  \/ \E id \in IdSet, p \in Payloads, commit_ok \in BOOLEAN :
       stage.op = "none" /\ insert_memory(id, p, commit_ok) /\ UNCHANGED <<srch, gm>>
  \/ \E id \in IdSet, commit_ok \in BOOLEAN :
       stage.op = "none" /\ delete_memory(id, commit_ok) /\ UNCHANGED <<srch, gm>>
  \/ \E q \in Queries, k \in 0..MaxK : hamming_scan_call(q, k)
  \/ \E q \in Queries, c \in CandidateLists, k \in 0..MaxK :
       matryoshka_refinement_call(q, c, k)
  \/ \E q \in Queries, c \in CandidateLists, k \in 0..MaxTopK :
       full_rerank_call(q, c, k)
  \/ stage_return
  \/ stage.op = "none" /\ Tick /\ UNCHANGED <<srch, gm>>

SpecStages == InitStaged /\ [][NextStages]_vars

\* concurrent calls on one CandleProvider; a lock that can be granted to
\* its first waiter is granted, and a body that runs returns
NextCandle ==
  \/ \E t \in Tasks, op \in CandleOps : candle_call(t, op)
  \/ \E t \in Tasks : candle_grant(t)
  \/ \E t \in Tasks, ok \in BOOLEAN : candle_body(t, ok)

SpecCandle ==
  /\ InitSqlite
  /\ [][NextCandle]_vars
  /\ \A t \in Tasks :
       WF_vars(candle_grant(t) \/ \E ok \in BOOLEAN : candle_body(t, ok))

\* the vector codec called on every vector of CodecVectors
InitCodec ==
  /\ StoreInit
  /\ config = [stage1_k |-> 1, stage2_k |-> 1]
  /\ codec \in {[CodecIdle EXCEPT !.v = v] : v \in CodecVectors}
  /\ deadline = 0
  /\ mcp = McpIdle
  /\ stage = StageIdle
  /\ candle = CandleNew

NextCodec ==
  \/ encode_bq_call
  \/ vectors_encode_bq_call
  \/ \E m \in 0..(MaxLen + 1) : slice_vector_call(m)
  \/ \E m \in 0..(MaxLen + 1) : vectors_slice_vector_call(m)

SpecCodec == InitCodec /\ [][NextCodec]_vars

\* the MCP server reading a client's lines from stdin
InitMcp ==
  /\ StoreInit
  /\ config = [stage1_k |-> 1, stage2_k |-> 1]
  /\ codec = CodecIdle
  /\ deadline = 0
  /\ stage = StageIdle
  /\ candle = CandleNew
  /\ mcp \in {[McpIdle EXCEPT !.input = i, !.embedder = e] :
                i \in UNION {[1..k -> Lines] : k \in 0..MaxLines}, e \in BOOLEAN}

NextMcp ==
  \E enc \in {None} \cup {Some(v) : v \in Embeddings} : serve_line(enc)

SpecMcp == InitMcp /\ [][NextMcp]_vars

\* ------------------------------------------------------------ properties
StoreEmpty == DOMAIN metadata = {} /\ DOMAIN vectors = {} /\ DOMAIN bit_index = {}

\* C1: when insert_document fails, none of its writes stays: the tables of
\* the document store are as they were before the call.
C1_FailedInsertLeavesNoRow ==
  [][(call'.op = "insert_document" /\ ~call'.ok)
       => (documents' = documents /\ vec_documents' = vec_documents
           /\ vec_bit_documents' = vec_bit_documents)]_vars

\* C2: in both stores, the ids of the documents (metadata) table are
\* exactly the ids of each vector table.
C2_FourWayInvariant ==
  /\ DOMAIN metadata = DOMAIN vectors
  /\ DOMAIN metadata = DOMAIN bit_index
  /\ DOMAIN documents = DOMAIN vec_documents
  /\ DOMAIN documents = DOMAIN vec_bit_documents

\* C3: a Memory returned by get_memory next to concurrent writes has the
\* metadata, vector and bit vector of one single insert.
C3_ReaderSeesOneInsert ==
  (gm.pc = "done" /\ IsSome(gm.res))
    => \E p \in Payloads :
         Unwrap(gm.res) = [id |-> gm.id, metadata |-> p.metadata, vector |-> p.vector,
                           bit_vector |-> p.bit_vector, tier |-> p.tier,
                           expires_at |-> p.expires_at]

\* C4: every id whose insert completed before the search was called, and
\* that was not deleted before the scan, is among the rows Stage 1 scans.
C4_InsertedIsScanned ==
  srch.pc = "done" => srch.must \subseteq srch.scanned

\* C4 witness: a search entered after an insert, whose scan also saw a row
\* committed after it was entered.
C4_Witness ==
  /\ srch.pc = "done"
  /\ srch.must # {}
  /\ srch.must \subseteq srch.scanned
  /\ srch.scanned # srch.must

\* the stores C5 is stated for: every vector has the dimension of the query
\* (at least target_dim) and no memory is expired
C5_Regular ==
  /\ srch.q.len >= target_dim
  /\ \A i \in DOMAIN vectors : bincode_deserialize(vectors[i]).len = srch.q.len
  /\ \A i \in DOMAIN metadata :
       ~is_expired(serde_json_from_slice(metadata[i]).expires_at)

\* C5: with X stored under vector v and bit vector encode_bq(v),
\* search(v, 1) returns X.
C5_SelfRecall ==
  (srch.pc = "done" /\ srch.top_k = 1 /\ C5_Regular)
    => \A X \in DOMAIN metadata :
         (X \in DOMAIN vectors /\ X \in DOMAIN bit_index
          /\ bincode_deserialize(vectors[X]) = srch.q
          /\ bit_index[X] = encode_bq(srch.q)
          /\ \A Y \in DOMAIN vectors \ {X} : bincode_deserialize(vectors[Y]) # srch.q)
           => (~srch.err /\ Ids(srch.out) = <<X>>)

\* C6: the scores of a returned list are non-increasing.
C6_ScoresNonIncreasing ==
  srch.pc = "done"
    => \A i \in 1..(Len(srch.out) - 1) :
         ScoreLeq(srch.out[i + 1].score, srch.out[i].score)

\* C6 witness: two results with different scores, returned in the order
\* opposite to the key order of the candidates.
C6_Witness ==
  /\ srch.pc = "done"
  /\ Len(srch.out) = 2
  /\ ScoreLt(srch.out[2].score, srch.out[1].score)
  /\ srch.out[1].id > srch.out[2].id

\* C7: a search of the empty database returns the empty list, no error.
C7_EmptyDatabase ==
  (srch.pc = "done" /\ StoreEmpty) => (srch.out = <<>> /\ ~srch.err)

\* C7 witness: the empty database searched with a query too short for the
\* Stage 2 slice.
C7_Witness ==
  /\ srch.pc = "done"
  /\ StoreEmpty
  /\ srch.q.len < target_dim
  /\ srch.top_k > 0
  /\ srch.out = <<>>
  /\ ~srch.err

\* C8: no insert of an id that is already stored returns Ok.
C8_DuplicateInsertFails ==
  [][\A id \in IdSet, p \in Payloads :
       id \in DOMAIN metadata => ~insert_memory(id, p, TRUE)]_vars

\* C9: all stored rows have one dimension D: the vectors have D components
\* and the bit vectors ceil(D/8) bytes.
C9_OneDimension ==
  /\ \A i, j \in DOMAIN vectors :
       bincode_deserialize(vectors[i]).len = bincode_deserialize(vectors[j]).len
  /\ \A i \in DOMAIN vectors \cap DOMAIN bit_index :
       Len(bit_index[i]) = CeilDiv8(bincode_deserialize(vectors[i]).len)

\* C10: after IngestionPipeline::run has returned an error, the document
\* and its vector are not in the store.
C10_FailedRunLeavesStore ==
  (call.op = "run" /\ ~call.ok)
    => (call.id \notin DOMAIN documents /\ call.id \notin DOMAIN vec_documents)

\* C11: encode_bq(v), in bq.rs and in vectors.rs, has ceil(L/8) bytes, bit
\* 7 - (i mod 8) of byte floor(i/8) is 1 iff v[i] > 0, and the bits after
\* component L-1 are 0.
C11_EncodeBqBits ==
  codec.op \in {"encode_bq", "vectors_encode_bq"}
    => LET b == Unwrap(codec.out)
       IN /\ Len(b) = CeilDiv8(codec.v.len)
          /\ \A k \in 1..Len(b) : b[k] \in 0..255
          /\ \A i \in 0..(8 * Len(b) - 1) :
               BitAt(b[(i \div 8) + 1], 7 - (i % 8)) =
                 (IF i < codec.v.len /\ Component(codec.v, i) > 0 THEN 1 ELSE 0)

\* C11 witness: a vector of 9 components with a positive one in each byte
\* and a negative one, encoded into two bytes.
C11_Witness ==
  /\ codec.op = "encode_bq"
  /\ codec.v.len = 9
  /\ Component(codec.v, 8) > 0
  /\ Component(codec.v, 1) < 0
  /\ Unwrap(codec.out) = <<0, 128>>

\* C12: slice_vector(v, m), of the search stage and of the ingestion
\* pipeline, gives an error and no vector when m = 0 or m > |v|.
C12_SliceRejects ==
  (codec.op \in {"slice_vector", "vectors_slice_vector"}
   /\ (codec.m = 0 \/ codec.m > codec.v.len))
    => codec.out = None

\* C13: for 1 <= m <= |v|, slice_vector(v, m) has m components, the first
\* m components of v divided by the L2 norm of that prefix, or unchanged
\* when the norm is 0.
C13_SliceNormalises ==
  (codec.op \in {"slice_vector", "vectors_slice_vector"}
   /\ 1 <= codec.m /\ codec.m <= codec.v.len)
    => /\ IsSome(codec.out)
       /\ LET r == Unwrap(codec.out)
              v == codec.v
              n2 == SumSet([i \in 0..(codec.m - 1) |-> Component(v, i) * Component(v, i)],
                           0..(codec.m - 1))
          IN /\ r.len = codec.m
             /\ \A i \in 0..(codec.m - 1) :
                  /\ (Component(r, i) > 0) = (Component(v, i) > 0)
                  /\ (Component(r, i) < 0) = (Component(v, i) < 0)
                  /\ IF n2 = 0
                     THEN Sq(Component(r, i)) * v.div2 = Sq(Component(v, i)) * r.div2
                     ELSE Sq(Component(r, i)) * n2 = Sq(Component(v, i)) * r.div2

\* the ids search(q, top_k) returns in the current state
SearchIds(q, top_k) ==
  LET r == search_body(search_enter(q, top_k))
  IN {r.out[i].id : i \in 1..Len(r.out)}

\* C14: an id whose last completed write is a delete_memory has no row in
\* any keyspace, get_memory(id) is None and no search returns it; the three
\* keyspaces hold the same ids in every state, so no reader finds only some
\* of the rows of a document.
C14_DeleteRemovesAllRows ==
  /\ \A id \in IdSet \ inserted :
       /\ id \notin (DOMAIN metadata \cup DOMAIN vectors \cup DOMAIN bit_index)
       /\ get_memory(id) = None
       /\ \A q \in Queries : id \notin SearchIds(q, MaxTopK)
  /\ DOMAIN metadata = DOMAIN vectors
  /\ DOMAIN vectors = DOMAIN bit_index

\* C14 witness: a reader got the memory of an id, and a delete has since
\* removed the id from all three keyspaces.
C14_Witness ==
  /\ gm.pc = "done"
  /\ IsSome(gm.res)
  /\ gm.id \notin (DOMAIN metadata \cup DOMAIN vectors \cup DOMAIN bit_index)
  /\ gm.id \notin inserted
  /\ DOMAIN metadata # {}

\* C15: a search, whether it succeeds, returns empty or fails, leaves every
\* keyspace and every table as it was.
C15_SearchNeverWrites ==
  [][(srch.pc = "idle" /\ srch'.pc = "done")
       => /\ metadata' = metadata /\ vectors' = vectors /\ bit_index' = bit_index
          /\ documents' = documents /\ vec_documents' = vec_documents
          /\ vec_bit_documents' = vec_bit_documents /\ entities' = entities
          /\ vec_entities' = vec_entities /\ relationships' = relationships]_vars

\* C15 witness: a search has failed on a store that holds two memories,
\* one of them expired.
C15_Witness ==
  /\ srch.pc = "done"
  /\ srch.err
  /\ Cardinality(DOMAIN metadata) = 2
  /\ DOMAIN metadata = DOMAIN vectors
  /\ DOMAIN metadata = DOMAIN bit_index
  /\ \E i \in DOMAIN metadata :
       LET e == serde_json_from_slice(metadata[i])
       IN IsSome(e.expires_at) /\ now >= Unwrap(e.expires_at)

\* C16: search returns at most top_k results, every returned id is the id
\* of a stored memory, and no id is returned twice.
C16_ResultsBounded ==
  srch.pc = "done"
    => /\ Len(srch.out) <= srch.top_k
       /\ \A i \in 1..Len(srch.out) :
            srch.out[i].id \in (DOMAIN metadata \cap DOMAIN vectors \cap DOMAIN bit_index)
       /\ \A i, j \in 1..Len(srch.out) : srch.out[i].id = srch.out[j].id => i = j

\* C16 witness: two candidates reached Stage 3 and top_k = 1 kept one.
C16_Witness ==
  /\ srch.pc = "done"
  /\ srch.top_k = 1
  /\ Len(srch.s2) = 2
  /\ Len(srch.out) = 1

\* C17: get_memory(id) of a stored memory is None exactly when its
\* expires_at is Some(t) with now >= t, and while the clock advances
\* without a write a memory that is not retrievable stays so.
C17_ExpiryHidesMemory ==
  /\ [](\A id \in DOMAIN metadata \cap DOMAIN vectors \cap DOMAIN bit_index :
          LET e == serde_json_from_slice(metadata[id])
              past == IsSome(e.expires_at) /\ now >= Unwrap(e.expires_at)
          IN /\ past => get_memory(id) = None
             /\ ~past => (IsSome(get_memory(id)) /\ Unwrap(get_memory(id)).id = id))
  /\ [][(now' > now /\ metadata' = metadata /\ vectors' = vectors
         /\ bit_index' = bit_index)
          => \A id \in IdSet : get_memory(id) = None => (get_memory(id))' = None]_vars

\* C17 witness: the clock has reached the expires_at of a stored memory,
\* which get_memory no longer returns, next to one that it does return.
C17_Witness ==
  /\ now = 1
  /\ \E id \in DOMAIN metadata :
       /\ serde_json_from_slice(metadata[id]).expires_at = Some(1)
       /\ get_memory(id) = None
  /\ \E id \in DOMAIN metadata : IsSome(get_memory(id))

\* the Memory a caller inserts under id with the fields of p
MemoryOf(id, p) ==
  [id |-> id, metadata |-> p.metadata, vector |-> p.vector,
   bit_vector |-> p.bit_vector, tier |-> p.tier, expires_at |-> p.expires_at]

NonEmptyLines(n) == SelectSeq([k \in 1..n |-> k], LAMBDA k : mcp.input[k] # "blank")

\* C19: the server has written one response per non-empty line it has
\* read, in the order of the lines, each with the id of its request; a
\* line that is not JSON got the error -32700 with id null; and the server
\* stops only at the end of the input.
C19_OneResponsePerLine ==
  LET asked == NonEmptyLines(mcp.n)
  IN /\ Len(mcp.stdout) = Len(asked)
     /\ \A k \in 1..Len(asked) :
          LET line == mcp.input[asked[k]]
              response == mcp.stdout[k]
          IN IF line \in {"not_json", "not_utf8"}
             THEN response = error_response(None, 0 - 32700)
             ELSE response.id = request_id(line, asked[k])
     /\ mcp.pc # "read_line" => mcp.n = Len(mcp.input)

\* C20: when the caller's deadline is exceeded between Stage 1 and Stage 2
\* or between Stage 2 and Stage 3, the next step of search returns
\* Cancelled, and the following stage is not run.
C20_CancelledBetweenStages ==
  [][(srch.pc \in {"stage2", "stage3"} /\ now > deadline /\ srch' # srch)
       => srch'.pc = "cancelled"]_vars

Range(s) == {s[i] : i \in 1..Len(s)}

\* C22: search runs Stage 1, then Stage 2, then Stage 3; an empty Stage 1
\* ends the search with [] before Stage 2, an empty Stage 2 ends it with []
\* before Stage 3; Stage 2 works on exactly the ids Stage 1 returned and
\* Stage 3 on exactly the ids Stage 2 returned.
C22_StagesInOrder ==
  [][srch' # srch =>
       /\ srch'.pc = "stage2" => srch.pc = "stage1"
       /\ srch'.pc = "stage3" => srch.pc = "stage2"
       /\ srch.pc = "stage1" =>
            /\ srch'.pc = (IF srch'.s1 = <<>> THEN "done" ELSE "stage2")
            /\ srch'.s2 = <<>> /\ srch'.out = <<>> /\ ~srch'.err
       /\ srch.pc = "stage2" =>
            LET r == matryoshka_refinement(srch.q, srch.s1, config.stage2_k)
            IN /\ srch.s1 # <<>>
               /\ srch'.s1 = srch.s1
               /\ srch'.out = <<>>
               /\ srch'.err = ~r.ok
               /\ r.ok => /\ srch'.s2 = Ids(r.val)
                          /\ Range(srch'.s2) \subseteq Range(srch.s1)
                          /\ srch'.pc = (IF srch'.s2 = <<>> THEN "done" ELSE "stage3")
               /\ ~r.ok => srch'.pc = "done"
       /\ srch.pc = "stage3" =>
            LET r == full_rerank(srch.q, srch.s2, srch.top_k)
            IN /\ srch.s2 # <<>>
               /\ srch'.s2 = srch.s2
               /\ srch'.pc = "done"
               /\ srch'.err = ~r.ok
               /\ r.ok => /\ srch'.out = r.val
                          /\ Range(Ids(srch'.out)) \subseteq Range(srch.s2)]_vars

\* C22 witness: Stage 1 returned two candidates, Stage 2 returned none of
\* them and the search ended with [] and no error.
C22_Witness ==
  /\ srch.pc = "done"
  /\ Len(srch.s1) = 2
  /\ srch.s2 = <<>>
  /\ srch.out = <<>>
  /\ ~srch.err

\* C23: Stage 1 returns min(k, N) ids of the N rows of the bit index, in
\* ascending order of their Hamming distance to the query bits, and no row
\* left out is strictly closer than a row returned.
C23_HammingScanTopK ==
  srch.pc = "done"
    => LET query_bits == encode_bq(srch.q)
           dist(id) == hamming(query_bits, bit_index[id])
           N == Cardinality(DOMAIN bit_index)
       IN /\ Len(srch.s1) = Min(config.stage1_k, N)
          /\ Range(srch.s1) \subseteq DOMAIN bit_index
          /\ \A i, j \in 1..Len(srch.s1) : srch.s1[i] = srch.s1[j] => i = j
          /\ \A i \in 1..(Len(srch.s1) - 1) :
               (IsSome(dist(srch.s1[i])) /\ IsSome(dist(srch.s1[i + 1])))
                 => Unwrap(dist(srch.s1[i])) <= Unwrap(dist(srch.s1[i + 1]))
          /\ \A a \in Range(srch.s1), b \in DOMAIN bit_index \ Range(srch.s1) :
               (IsSome(dist(a)) /\ IsSome(dist(b)))
                 => Unwrap(dist(a)) <= Unwrap(dist(b))

\* C24: matryoshka_refinement returns only ids of candidate_ids, at most k2
\* of them, in descending order of the cosine similarity between the
\* renormalized prefix of the query and that of the candidate; with an
\* empty candidate_ids it returns the empty list.
C24_RefinementContract ==
  stage.op = "matryoshka_refinement"
    => /\ stage.ids = <<>> => (stage.ok /\ stage.val = <<>>)
       /\ stage.ok =>
            /\ Range(Ids(stage.val)) \subseteq Range(stage.ids)
            /\ Len(stage.val) <= stage.k
            /\ \A i \in 1..Len(stage.val) :
                 LET m == get_memory(stage.val[i].id)
                 IN /\ IsSome(m)
                    /\ Some(stage.val[i].score) =
                         cos_similarity(Unwrap(slice_vector(stage.q, target_dim)),
                                        Unwrap(slice_vector(Unwrap(m).vector, target_dim)))
            /\ \A i \in 1..(Len(stage.val) - 1) :
                 ScoreLeq(stage.val[i + 1].score, stage.val[i].score)

\* C25: a candidate for which get_memory returns no memory is skipped by
\* full_rerank: the result is the one for the remaining candidates, and it
\* is Ok, with min(top_k, remaining) results, when every remaining
\* candidate has the query's dimension.
C25_MissingCandidateSkipped ==
  stage.op = "full_rerank"
    => LET present == SelectSeq(stage.ids, LAMBDA id : IsSome(get_memory(id)))
           r == full_rerank(stage.q, present, stage.k)
       IN /\ stage.ok = r.ok
          /\ stage.val = r.val
          /\ (\A i \in 1..Len(present) :
                Unwrap(get_memory(present[i])).vector.len = stage.q.len)
               => /\ stage.ok
                  /\ Len(stage.val) = Min(stage.k, Len(present))
                  /\ Range(Ids(stage.val)) \subseteq Range(present)

\* C25 witness: of two candidates one has no row in the store, and
\* full_rerank has returned the other one.
C25_Witness ==
  /\ stage.op = "full_rerank"
  /\ Len(stage.ids) = 2
  /\ \E i \in 1..2 : stage.ids[i] \notin DOMAIN metadata
  /\ stage.ok
  /\ Len(stage.val) = 1

\* C26: a search returns an error whenever a kernel or the codec has failed
\* in one of its stages: Stage 1 drops no row whose bit vector has another
\* length than the query's, Stage 2 drops no candidate that get_memory does
\* not return, and the errors of the slices and of the cosine kernel are
\* returned.
C26_ErrorsReachCaller ==
  srch.pc = "done"
    => LET query_bits == encode_bq(srch.q)
       IN /\ (\E id \in DOMAIN bit_index : hamming(query_bits, bit_index[id]) = None)
               => srch.err
          /\ (\E i \in 1..Len(srch.s1) : get_memory(srch.s1[i]) = None)
               => srch.err
          /\ (srch.s1 # <<>> /\ slice_vector(srch.q, target_dim) = None)
               => srch.err
          /\ (\E i \in 1..Len(srch.s2) :
                /\ IsSome(get_memory(srch.s2[i]))
                /\ cos_similarity(srch.q, Unwrap(get_memory(srch.s2[i])).vector) = None)
               => srch.err

\* C27: Stage 2 works with a short query of floor(D/3) components, for
\* every dimension D of the query.
C27_ShortIsThirdOfD ==
  (stage.op = "matryoshka_refinement" /\ stage.q.len \div 3 >= 1)
    => /\ IsSome(stage.short)
       /\ Unwrap(stage.short).len = stage.q.len \div 3

\* C28: no memory whose expires_at is at or before the current time is in
\* the result of a search, while its row stays in the bit index and is
\* scanned by Stage 1.
C28_ExpiredNeverReturned ==
  srch.pc = "done"
    => \A i \in 1..Len(srch.out) :
         LET id == srch.out[i].id
         IN /\ id \in DOMAIN metadata
            /\ LET e == serde_json_from_slice(metadata[id])
               IN ~(IsSome(e.expires_at) /\ Unwrap(e.expires_at) <= now)

\* C28 witness: a memory passed Stage 2, expired before Stage 3 and is not
\* in the result, which holds another memory; its row is still in the bit
\* index.
C28_Witness ==
  /\ srch.pc = "done"
  /\ srch.out # <<>>
  /\ \E i \in 1..Len(srch.s2) :
       LET id == srch.s2[i]
       IN /\ id \in DOMAIN bit_index
          /\ id \in DOMAIN metadata
          /\ serde_json_from_slice(metadata[id]).expires_at = Some(now)
          /\ id \notin Range(Ids(srch.out))

\* C29: the entities table holds at most one row per name and every
\* relationship row joins two existing entity rows; insert_entity with a
\* name that exists returns the id of the existing row and writes nothing.
C29_OneEntityPerName ==
  /\ [](/\ \A i, j \in DOMAIN entities : entities[i].name = entities[j].name => i = j
        /\ \A r \in DOMAIN relationships :
             /\ relationships[r].source_id \in DOMAIN entities
             /\ relationships[r].target_id \in DOMAIN entities)
  /\ [][\A name \in Names, vector \in {None} \cup {Some(v) : v \in Embeddings} :
          (insert_entity_call(name, vector)
           /\ IsSome(get_entity_by_name(entities, name)))
            => /\ call'.ok
               /\ call'.id = Unwrap(get_entity_by_name(entities, name))
               /\ entities' = entities
               /\ vec_entities' = vec_entities
               /\ relationships' = relationships
               /\ uuid' = uuid]_vars

\* C29 witness: with two entities and a relationship written by an
\* ingestion, insert_entity has returned the id of the first entity.
C29_Witness ==
  /\ call.op = "insert_entity"
  /\ call.ok
  /\ call.id = 1
  /\ uuid.graph = 3
  /\ Cardinality(DOMAIN entities) = 2
  /\ Cardinality(DOMAIN relationships) = 1

\* C30: every call of load_bert, load_phi3, complete and embed that has
\* started returns, whatever calls run next to it, and a load call whose
\* model is already loaded leaves the models, the tokenizer and the
\* dimension as they are.
C30_NoLockDeadlock ==
  /\ \A t \in Tasks :
       (candle.task[t].pc # "idle") ~> (candle.task[t].pc = "idle")
  /\ [][\A t \in Tasks :
          (/\ candle.task[t].pc = "body"
           /\ candle'.task[t].pc = "idle"
           /\ \/ candle.task[t].op = "load_bert" /\ IsSome(candle.bert)
              \/ candle.task[t].op = "load_phi3" /\ IsSome(candle.phi3))
            => /\ candle'.bert = candle.bert
               /\ candle'.phi3 = candle.phi3
               /\ candle'.tokenizer = candle.tokenizer
               /\ candle'.dimension = candle.dimension]_vars

\* C30 witness: complete has the phi3 lock and waits for the tokenizer
\* lock, which a load_bert holds while it waits for the dimension lock.
C30_Witness ==
  \E t, u \in Tasks :
    /\ candle.task[t].op = "complete"
    /\ candle.task[t].pc = "waiting"
    /\ candle.lock["phi3"].writer = t
    /\ candle.task[u].op = "load_bert"
    /\ candle.lock["tokenizer"].writer = u
    /\ candle.task[u].pc = "waiting"
    /\ IsSome(candle.phi3)

====
